---------------------------- MODULE Spec2Model ----------------------------
(***************************************************************************)
(* Model of high_school_etl_dag.py: the three callables                    *)
(* fetch_data_from_json, transform_data and load_data_to_database, the     *)
(* DAG that wires them (extract_task >> transform_task >> load_task) with  *)
(* default_args (retries = 1), the XCom hand-off between the tasks and the *)
(* destination table hijir.target_table.                                   *)
(*                                                                         *)
(* Text is a sequence of one-character strings, so that str.contains and   *)
(* pd.to_numeric are computed on the characters.  A cell value is Null      *)
(* (None / NaN), Str(text) or Num(mantissa, scale) = mantissa * 10^-scale. *)
(***************************************************************************)
EXTENDS Integers, Sequences, FiniteSets, TLC

(***************************************************************************)
(* Bound of the model: the longest record collection a source holds.       *)
(***************************************************************************)
MaxLen == 2

(***************************************************************************)
(* default_args['retries'] (line 24).                                      *)
(***************************************************************************)
retries == 1

Range(s) == {s[i] : i \in 1..Len(s)}

-----------------------------------------------------------------------------
(* Cell values *)

Null == [t |-> "null", v |-> <<>>]
Str(s) == [t |-> "str", v |-> s]
Num(m, sc) == [t |-> "num", v |-> <<m, sc>>]

IsNull(x) == x.t = "null"

(* the separator literal " - " of line 88 *)
Separator == <<" ", "-", " ">>

(* the literals of line 84 *)
PublicMarker == <<"N">>
HighSchool == <<"S", "M", "A">>

-----------------------------------------------------------------------------
(* pandas primitives used by transform_data *)

(* Series.str.contains(pat) on one cell, pat a literal without regex       *)
(* metacharacters: a non-string cell gives NaN.                            *)
StrContains(x, pat) ==
    IF x.t # "str" THEN Null
    ELSE IF \E i \in 1..(Len(x.v) - Len(pat) + 1) :
                SubSeq(x.v, i, i + Len(pat) - 1) = pat
         THEN Str(<<"T">>) ELSE Str(<<"F">>)

(* (a & b) of line 84 on one row: the NaN of str.contains is filled False. *)
MaskAnd(a, b) == (a = Str(<<"T">>)) /\ b

DigitVal == [c \in {"0", "1", "2", "3", "4", "5", "6", "7", "8", "9"} |->
               CASE c = "0" -> 0 [] c = "1" -> 1 [] c = "2" -> 2 [] c = "3" -> 3
                 [] c = "4" -> 4 [] c = "5" -> 5 [] c = "6" -> 6 [] c = "7" -> 7
                 [] c = "8" -> 8 [] c = "9" -> 9]

RECURSIVE DigitsValue(_)
DigitsValue(ds) ==
    IF ds = <<>> THEN 0
    ELSE DigitsValue(SubSeq(ds, 1, Len(ds) - 1)) * 10 + DigitVal[ds[Len(ds)]]

RECURSIVE Normalize(_, _)
Normalize(m, sc) ==
    IF sc > 0 /\ m % 10 = 0 THEN Normalize(m \div 10, sc - 1) ELSE Num(m, sc)

(* The decimal literals [+-]digits[.digits] that pd.to_numeric parses; any *)
(* other text is coerced to NaN (errors='coerce').                         *)
ParseDecimal(s) ==
    LET signed == s # <<>> /\ s[1] \in {"-", "+"}
        body == IF signed THEN Tail(s) ELSE s
        dots == {i \in 1..Len(body) : body[i] = "."}
        wellFormed == /\ Cardinality(dots) <= 1
                      /\ \A i \in (1..Len(body)) \ dots : body[i] \in DOMAIN DigitVal
                      /\ Len(body) - Cardinality(dots) >= 1
    IN  IF ~wellFormed THEN Null
        ELSE LET d == IF dots = {} THEN Len(body) + 1 ELSE CHOOSE i \in dots : TRUE
                 int == SubSeq(body, 1, d - 1)
                 frac == SubSeq(body, d + 1, Len(body))
                 mag == DigitsValue(int \o frac)
             IN  Normalize(IF signed /\ s[1] = "-" THEN 0 - mag ELSE mag, Len(frac))

(* pd.to_numeric(..., errors='coerce') on one cell *)
ToNumeric(x) ==
    CASE x.t = "num" -> x
      [] x.t = "str" -> ParseDecimal(x.v)
      [] OTHER -> Null

(* ConcatAddress with the operands filled: fillna('') before the sum *)
ConcatAddressFilled(a, b) ==
    Str((IF a.t = "str" THEN a.v ELSE <<>>) \o Separator
        \o (IF b.t = "str" THEN b.v ELSE <<>>))

(* a + " - " + b on one row of object columns: a null operand gives NaN *)
ConcatAddress(a, b) ==
    IF a.t = "str" /\ b.t = "str" THEN Str(a.v \o Separator \o b.v) ELSE Null

-----------------------------------------------------------------------------
(* Results of a callable: a returned value or a raised exception *)

Return(x) == [status |-> "ok", value |-> x]
Raise(e) == [status |-> "raise", value |-> e]

(* the value of an XCom slot nothing was pushed to *)
NoValue == [status |-> "none"]

-----------------------------------------------------------------------------
(* Data frames: the ordered columns, the dtype of each column, and the     *)
(* rows, each with its index label and its cells.                          *)

(* The key order of a record as json.load delivers it; the sample records  *)
(* list their keys in this order.                                          *)
FieldOrder == <<"status", "bentuk", "sekolah", "alamat_jalan", "lintang", "bujur">>

KeyOrder(r) == SelectSeq(FieldOrder, LAMBDA k : k \in DOMAIN r)

RECURSIVE UnionOfKeys(_, _)
UnionOfKeys(recs, acc) ==
    IF recs = <<>> THEN acc
    ELSE UnionOfKeys(Tail(recs),
                     acc \o SelectSeq(KeyOrder(Head(recs)), LAMBDA k : k \notin Range(acc)))

(* DataFrame built with columns=FieldOrder: every column is there whatever *)
(* the records hold                                                        *)
DataFrameFixedColumns(recs) ==
    [columns |-> FieldOrder,
     dtypes |-> [c \in Range(FieldOrder) |-> "object"],
     rows |-> [i \in 1..Len(recs) |->
                 [idx |-> i - 1,
                  val |-> [c \in Range(FieldOrder) |->
                             IF c \in DOMAIN recs[i] THEN recs[i][c] ELSE Null]]]]

(* pd.DataFrame(sekolah_data), line 80: the columns are the keys in order  *)
(* of first appearance, a key a record lacks is NaN, the index is 0..n-1.  *)
DataFrame(recs) ==
    LET cols == UnionOfKeys(recs, <<>>)
    IN  [columns |-> cols,
         dtypes |-> [c \in Range(cols) |-> "object"],
         rows |-> [i \in 1..Len(recs) |->
                     [idx |-> i - 1,
                      val |-> [c \in Range(cols) |->
                                 IF c \in DOMAIN recs[i] THEN recs[i][c] ELSE Null]]]]

HasColumns(df, cs) == cs \subseteq Range(df.columns)

(* df[(df['status'].str.contains('N')) & (df['bentuk'] == 'SMA')], line 84 *)
FilterPublicHighSchools(df) ==
    [df EXCEPT !.rows =
        SelectSeq(df.rows,
                  LAMBDA r : MaskAnd(StrContains(r.val["status"], PublicMarker),
                                     r.val["bentuk"] = Str(HighSchool)))]

(* df[name] = values: an existing column keeps its place, a new one is     *)
(* appended; values holds one cell for each row.                           *)
AssignColumn(df, name, values, dtype) ==
    [columns |-> IF name \in Range(df.columns) THEN df.columns
                 ELSE Append(df.columns, name),
     dtypes |-> [c \in Range(df.columns) \cup {name} |->
                   IF c = name THEN dtype ELSE df.dtypes[c]],
     rows |-> [i \in 1..Len(df.rows) |->
                 [idx |-> df.rows[i].idx,
                  val |-> [c \in Range(df.columns) \cup {name} |->
                             IF c = name THEN values[i]
                             ELSE df.rows[i].val[c]]]]]

(* line 88 *)
AssignSchoolAddress(df) ==
    AssignColumn(df, "school_address",
                 [i \in 1..Len(df.rows) |->
                    ConcatAddress(df.rows[i].val["sekolah"],
                                  df.rows[i].val["alamat_jalan"])],
                 "object")

(* The dtype pd.to_numeric gives a column: int64 when every cell parsed to *)
(* an integer (and for no cells at all), float64 otherwise.                *)
NumericDtype(cells) ==
    IF \A i \in 1..Len(cells) : cells[i].t = "num" /\ cells[i].v[2] = 0
    THEN "int64" ELSE "float64"

(* lines 92 and 93 *)
CoerceColumn(df, name) ==
    LET cells == [i \in 1..Len(df.rows) |-> ToNumeric(df.rows[i].val[name])]
    IN  AssignColumn(df, name, cells, NumericDtype(cells))

(* DropNa with how='all': a row goes only when every cell of the subset is *)
(* null                                                                    *)
DropNaAll(df, subset) ==
    [df EXCEPT !.rows =
        SelectSeq(df.rows, LAMBDA r : \E c \in subset : ~IsNull(r.val[c]))]

(* dropna(subset=...), line 97 *)
DropNa(df, subset) ==
    [df EXCEPT !.rows =
        SelectSeq(df.rows, LAMBDA r : \A c \in subset : ~IsNull(r.val[c]))]

(* transform_data, lines 74 to 99, on the value pulled from XCom.  A       *)
(* subscript with a key or column that is not there raises KeyError.       *)
transform_data(data) ==
    IF "dataSekolah" \notin DOMAIN data THEN Raise("KeyError")
    ELSE LET df == DataFrame(data.dataSekolah)
         IN  IF ~HasColumns(df, {"status", "bentuk"}) THEN Raise("KeyError")
             ELSE IF ~HasColumns(df, {"sekolah", "alamat_jalan"}) THEN Raise("KeyError")
             ELSE IF ~HasColumns(df, {"lintang"}) THEN Raise("KeyError")
             ELSE IF ~HasColumns(df, {"bujur"}) THEN Raise("KeyError")
             ELSE Return(DropNa(CoerceColumn(CoerceColumn(
                            AssignSchoolAddress(FilterPublicHighSchools(df)),
                            "lintang"), "bujur"),
                         {"lintang", "bujur"}))

-----------------------------------------------------------------------------
(* The destination table hijir.target_table: absent, or its typed columns  *)
(* and its rows (the cells of each row in column order).                   *)

NoTable == [exists |-> FALSE]

Table(cols, rws) == [exists |-> TRUE, columns |-> cols, rows |-> rws]

(* line 136: every column of the frame is declared TEXT *)
data_types(df) == [c \in Range(df.columns) |-> "TEXT"]

(* CreateTableIfNotExists as DROP TABLE IF EXISTS followed by CREATE TABLE *)
DropAndCreateTable(tbl, df) ==
    Table([i \in 1..Len(df.columns) |->
             <<df.columns[i], data_types(df)[df.columns[i]]>>],
          <<>>)

(* lines 139 to 144: CREATE TABLE IF NOT EXISTS, run and committed by      *)
(* postgres_hook.run.  An existing table is left as it is.                 *)
CreateTableIfNotExists(tbl, df) ==
    IF tbl.exists THEN tbl
    ELSE Table([i \in 1..Len(df.columns) |->
                  <<df.columns[i], data_types(df)[df.columns[i]]>>],
               <<>>)

(* The column type to_sql derives from a dtype when it creates the table.  *)
SqlType(dtype) ==
    CASE dtype = "float64" -> "FLOAT(53)"
      [] dtype = "int64" -> "BIGINT"
      [] OTHER -> "TEXT"

RowCells(df, r) == [i \in 1..Len(df.columns) |-> r.val[df.columns[i]]]

FrameRows(df) == [i \in 1..Len(df.rows) |-> RowCells(df, df.rows[i])]

(* ToSqlReplace with if_exists='append': the rows are added to the table *)
ToSqlAppend(tbl, df) ==
    Table(tbl.columns, tbl.rows \o FrameRows(df))

(* lines 148 to 154: to_sql(if_exists='replace', index=False) drops the    *)
(* table, creates it from the frame's columns and dtypes and inserts the   *)
(* frame's rows.                                                           *)
ToSqlReplace(tbl, df) ==
    Table([i \in 1..Len(df.columns) |->
             <<df.columns[i], SqlType(df.dtypes[df.columns[i]])>>],
          FrameRows(df))

(* What the sink does with one invocation of the loader: it accepts every  *)
(* statement, it cannot be reached, or it rejects the bulk load.           *)
SinkOutcomes == {"accepts", "unreachable", "rejects_write"}

(* load_data_to_database, lines 129 to 154: the raised exception or None,  *)
(* and the table it leaves.  The replace is one atomic operation of the    *)
(* sink: a rejected bulk load leaves the table as it was before to_sql.    *)
load_data_to_database(df, tbl, sink) ==
    IF sink = "unreachable"
    THEN [result |-> Raise("ConnectionError"), table |-> tbl]
    ELSE LET created == CreateTableIfNotExists(tbl, df)
         IN  IF sink = "rejects_write"
             THEN [result |-> Raise("WriteError"), table |-> created]
             ELSE [result |-> Return("None"), table |-> ToSqlReplace(created, df)]

-----------------------------------------------------------------------------
(* Sources *)

R_public == [status |-> Str(<<"N">>), bentuk |-> Str(<<"S", "M", "A">>),
             sekolah |-> Str(<<"A">>), alamat_jalan |-> Str(<<"J">>),
             lintang |-> Str(<<"-", "6", ".", "2">>), bujur |-> Str(<<"7">>)]

R_private == [status |-> Str(<<"S">>), bentuk |-> Str(<<"S", "M", "A">>),
              sekolah |-> Str(<<"B">>), alamat_jalan |-> Str(<<"K">>),
              lintang |-> Str(<<"1">>), bujur |-> Str(<<"8">>)]

R_badlat == [status |-> Str(<<"S", "N">>), bentuk |-> Str(<<"S", "M", "A">>),
             sekolah |-> Str(<<"C">>), alamat_jalan |-> Str(<<"L">>),
             lintang |-> Str(<<"a", "b", "c">>), bujur |-> Str(<<"9">>)]

R_noname == [status |-> Str(<<"N">>), bentuk |-> Str(<<"S", "M", "A">>),
             alamat_jalan |-> Str(<<"M">>),
             lintang |-> Str(<<"1", ".", "5">>), bujur |-> Str(<<"2">>)]

R_nolat == [status |-> Str(<<"N">>), bentuk |-> Str(<<"S", "M", "A">>),
            sekolah |-> Str(<<"D">>), alamat_jalan |-> Null,
            bujur |-> Str(<<"3">>)]

R_vocational == [status |-> Null, bentuk |-> Str(<<"S", "M", "K">>),
                 sekolah |-> Str(<<"E">>), alamat_jalan |-> Str(<<"P">>),
                 lintang |-> Str(<<"4">>), bujur |-> Str(<<"5">>)]

SampleRecords == {R_public, R_private, R_badlat, R_noname, R_nolat, R_vocational}

Collections == UNION {[1..n -> SampleRecords] : n \in 0..MaxLen}

(* The file the locator names: not there, not JSON, a JSON object without  *)
(* the dataSekolah key, or a JSON object holding a record collection.      *)
Sources ==
    {[kind |-> "missing"], [kind |-> "garbage"],
     [kind |-> "json", data |-> [lainnya |-> <<>>]]}
    \cup {[kind |-> "json", data |-> [dataSekolah |-> c]] : c \in Collections}

(* no run is active: there is no file a task could read *)
NoFile == [kind |-> "none"]

(* fetch_data_from_json that subscripts the collection key itself *)
fetch_data_checking_key(file) ==
    CASE file.kind = "missing" -> Raise("FileNotFoundError")
      [] file.kind = "garbage" -> Raise("JSONDecodeError")
      [] "dataSekolah" \notin DOMAIN file.data -> Raise("KeyError")
      [] OTHER -> Return(file.data)

(* fetch_data_from_json(file_path), lines 47 to 49, on the file at the path *)
fetch_data_from_json(file) ==
    CASE file.kind = "missing" -> Raise("FileNotFoundError")
      [] file.kind = "garbage" -> Raise("JSONDecodeError")
      [] OTHER -> Return(file.data)

-----------------------------------------------------------------------------
(* The DAG, lines 161 to 199 *)

extract_task == "fetch_data_from_api"
transform_task == "transform_data"
load_task == "load_data_to_database"

Tasks == {extract_task, transform_task, load_task}

(* upstream with the wiring extract_task >> [transform_task, load_task] *)
upstream_fanout(t) ==
    CASE t = extract_task -> {}
      [] t = transform_task -> {extract_task}
      [] t = load_task -> {extract_task}

(* extract_task >> transform_task >> load_task, line 199 *)
upstream(t) ==
    CASE t = extract_task -> {}
      [] t = transform_task -> {extract_task}
      [] t = load_task -> {transform_task}

(* The op_args a PythonOperator hands to fetch_data_from_json: none, as    *)
(* extract_task is written (lines 174 to 178), or the file path that the   *)
(* note of line 177 asks to be added.                                      *)
OpArgs == {<<>>, <<"file_path">>}

VARIABLES
    op_args,     \* the positional arguments of extract_task
    file,        \* the source file of the current run, NoFile between runs
    state,       \* the state of each task instance of the current run
    tries,       \* how many times each task was started in the current run
    xcom,        \* the return value each task pushed in the current run
    pulled,      \* what each task's last attempt got from xcom_pull
    err,         \* the last exception each task raised in the current run
    table,       \* hijir.target_table
    lastLoaded,  \* the frame of the last load_data_to_database that completed
    superseded,  \* that load replaced a table holding a row the frame lacks
    lastGood     \* the table as the last successful run left it

vars == <<op_args, file, state, tries, xcom, pulled, err, table,
          lastLoaded, superseded, lastGood>>

Finished == {"success", "failed", "upstream_failed"}

RunFinished == \A t \in Tasks : state[t] \in Finished

RunFailed == RunFinished /\ state[load_task] # "success"

NewRun ==
    /\ state = [t \in Tasks |-> "none"]
    /\ tries = [t \in Tasks |-> 0]
    /\ xcom = [t \in Tasks |-> NoValue]
    /\ pulled = [t \in Tasks |-> NoValue]
    /\ err = [t \in Tasks |-> "none"]

Init ==
    /\ op_args \in OpArgs
    /\ file = NoFile
    /\ NewRun
    /\ table = NoTable
    /\ lastLoaded = NoValue
    /\ superseded = FALSE
    /\ lastGood = NoTable

(* The scheduler starts a task whose upstream tasks all succeeded (the     *)
(* default trigger rule), for the first time or for a retry.               *)
Schedule(t) ==
    /\ file # NoFile
    /\ state[t] \in {"none", "up_for_retry"}
    /\ \A u \in upstream(t) : state[u] = "success"
    /\ state' = [state EXCEPT ![t] = "running"]
    /\ tries' = [tries EXCEPT ![t] = @ + 1]
    /\ xcom' = [xcom EXCEPT ![t] = NoValue]
    /\ UNCHANGED <<op_args, file, pulled, err, table, lastLoaded, superseded, lastGood>>

(* Finish that allows one retry more than default_args asks for *)
FinishOneMoreRetry(t, r) ==
    IF r.status = "ok"
    THEN /\ state' = [state EXCEPT ![t] = "success"]
         /\ xcom' = [xcom EXCEPT ![t] = r]
         /\ err' = err
    ELSE /\ state' = [state EXCEPT ![t] =
                        IF tries[t] <= retries + 1 THEN "up_for_retry" ELSE "failed"]
         /\ xcom' = xcom
         /\ err' = [err EXCEPT ![t] = r.value]

(* How a run of a task's callable ends: its return value is pushed to XCom, *)
(* or the task is retried while tries <= retries and failed after that.    *)
Finish(t, r) ==
    IF r.status = "ok"
    THEN /\ state' = [state EXCEPT ![t] = "success"]
         /\ xcom' = [xcom EXCEPT ![t] = r]
         /\ err' = err
    ELSE /\ state' = [state EXCEPT ![t] =
                        IF tries[t] <= retries THEN "up_for_retry" ELSE "failed"]
         /\ xcom' = xcom
         /\ err' = [err EXCEPT ![t] = r.value]

(* extract_task calls fetch_data_from_json with op_args; without its      *)
(* file_path argument the call itself raises TypeError.                    *)
ExecuteExtract ==
    /\ state[extract_task] = "running"
    /\ Finish(extract_task,
              IF op_args = <<>> THEN Raise("TypeError")
              ELSE fetch_data_from_json(file))
    /\ UNCHANGED <<op_args, file, tries, pulled, table, lastLoaded, superseded, lastGood>>

(* transform_task: line 74 pulls the extract task's return value. *)
ExecuteTransform ==
    /\ state[transform_task] = "running"
    /\ pulled' = [pulled EXCEPT ![transform_task] = xcom[extract_task]]
    /\ Finish(transform_task,
              IF xcom[extract_task] = NoValue THEN Raise("TypeError")
              ELSE transform_data(xcom[extract_task].value))
    /\ UNCHANGED <<op_args, file, tries, table, lastLoaded, superseded, lastGood>>

(* load_task: line 129 pulls the transform task's return value. *)
ExecuteLoad ==
    /\ state[load_task] = "running"
    /\ pulled' = [pulled EXCEPT ![load_task] = xcom[transform_task]]
    /\ \E sink \in SinkOutcomes :
          LET df == xcom[transform_task]
              out == IF df = NoValue
                     THEN [result |-> Raise("AttributeError"), table |-> table]
                     ELSE load_data_to_database(df.value, table, sink)
          IN  /\ Finish(load_task, out.result)
              /\ table' = out.table
              /\ IF out.result.status = "ok"
                 THEN /\ lastLoaded' = df.value
                      /\ superseded' =
                            (table.exists /\ Range(table.rows) \ Range(FrameRows(df.value)) # {})
                      /\ lastGood' = out.table
                 ELSE UNCHANGED <<lastLoaded, superseded, lastGood>>
    /\ UNCHANGED <<op_args, file, tries>>

(* A task with a failed upstream task is never run. *)
UpstreamFailed(t) ==
    /\ file # NoFile
    /\ state[t] = "none"
    /\ \E u \in upstream(t) : state[u] \in {"failed", "upstream_failed"}
    /\ state' = [state EXCEPT ![t] = "upstream_failed"]
    /\ UNCHANGED <<op_args, file, tries, xcom, pulled, err, table,
                   lastLoaded, superseded, lastGood>>

(* schedule_interval='@daily': the scheduler creates the next run, which   *)
(* reads the file as it is then.                                           *)
TriggerRun ==
    /\ file = NoFile
    /\ file' \in Sources
    /\ UNCHANGED <<op_args, state, tries, xcom, pulled, err, table,
                   lastLoaded, superseded, lastGood>>

(* Every task of the run has finished: the run is over, with its task     *)
(* instances and its XCom values.                                          *)
EndRun ==
    /\ RunFinished
    /\ file' = NoFile
    /\ state' = [t \in Tasks |-> "none"]
    /\ tries' = [t \in Tasks |-> 0]
    /\ xcom' = [t \in Tasks |-> NoValue]
    /\ pulled' = [t \in Tasks |-> NoValue]
    /\ err' = [t \in Tasks |-> "none"]
    /\ UNCHANGED <<op_args, table, lastLoaded, superseded, lastGood>>

Next ==
    \/ \E t \in Tasks : Schedule(t)
    \/ ExecuteExtract
    \/ ExecuteTransform
    \/ ExecuteLoad
    \/ \E t \in Tasks : UpstreamFailed(t)
    \/ TriggerRun
    \/ EndRun

Spec == Init /\ [][Next]_vars

-----------------------------------------------------------------------------
(* Vocabulary of the properties *)

(* the task's callable has run to its end at least once in this run and is *)
(* not running now                                                         *)
Executed(t) == state[t] \in {"success", "up_for_retry", "failed"}

Raised(t) == state[t] \in {"up_for_retry", "failed"}

HasCollection == file.kind = "json" /\ "dataSekolah" \in DOMAIN file.data

(* the record collection of the current run's source *)
Records == file.data.dataSekolah

(* the frame transform_task returned in this run *)
Frame == xcom[transform_task].value

ReadFields == {"status", "bentuk", "sekolah", "alamat_jalan", "lintang", "bujur"}

(* the field is a key of no record of the collection *)
AbsentEverywhere(f, recs) == \A i \in 1..Len(recs) : f \notin DOMAIN recs[i]

Field(r, f) == IF f \in DOMAIN r THEN r[f] ELSE Null

ContainsPublicMarker(r) ==
    /\ Field(r, "status").t = "str"
    /\ \E i \in 1..Len(r.status.v) : r.status.v[i] = "N"

ParsesToNumber(x) == ToNumeric(x).t = "num"

Qualifies(r) ==
    /\ ContainsPublicMarker(r)
    /\ Field(r, "bentuk") = Str(<<"S", "M", "A">>)
    /\ ParsesToNumber(Field(r, "lintang"))
    /\ ParsesToNumber(Field(r, "bujur"))

(* record i of the collection (counted from 1) is a row of the frame *)
Appears(i, df) == \E k \in 1..Len(df.rows) : df.rows[k].idx = i - 1

TextOrEmpty(x) == IF x.t = "str" THEN x.v ELSE <<>>

-----------------------------------------------------------------------------
-----------------------------------------------------------------------------
-----------------------------------------------------------------------------
(* C3: after any sequence of completed load_data_to_database invocations   *)
(* the table holds exactly the rows of the frame of the last one, in the   *)
(* frame's order: nothing of an earlier frame is kept, merged or appended. *)
C3_ReplaceSemantics ==
    lastLoaded # NoValue =>
        /\ table.exists
        /\ Len(table.rows) = Len(lastLoaded.rows)
        /\ \A k \in 1..Len(table.rows) :
              \A i \in 1..Len(lastLoaded.columns) :
                  table.rows[k][i] = lastLoaded.rows[k].val[lastLoaded.columns[i]]

(* a load that completed over a table holding a row its frame lacks, and   *)
(* left rows of its own                                                    *)
C3_Witness ==
    /\ state[load_task] = "success"
    /\ superseded
    /\ table.rows # <<>>

-----------------------------------------------------------------------------
(* C4: within a run the stages run one after the other and never together: *)
(* transform_task is not started before extract_task succeeded and pushed  *)
(* its whole output, load_task is not started before transform_task        *)
(* succeeded, and each reads exactly what the stage before it produced in  *)
(* this run.                                                               *)
C4_Sequential ==
    /\ Cardinality({t \in Tasks : state[t] = "running"}) <= 1
    /\ tries[transform_task] > 0 =>
          /\ state[extract_task] = "success"
          /\ xcom[extract_task] = Return(file.data)
    /\ tries[load_task] > 0 =>
          /\ state[transform_task] = "success"
          /\ xcom[transform_task] = transform_data(file.data)
    /\ Executed(transform_task) => pulled[transform_task] = Return(file.data)
    /\ Executed(load_task) =>
          /\ pulled[load_task].status = "ok"
          /\ pulled[load_task] = transform_data(pulled[transform_task].value)

(* the loader has run on a frame with rows, after the two stages before it *)
C4_Witness ==
    /\ state[load_task] = "success"
    /\ pulled[load_task].status = "ok"
    /\ pulled[load_task].value.rows # <<>>
    /\ pulled[transform_task] = Return(file.data)

-----------------------------------------------------------------------------
(* the tasks after t in the DAG *)
Downstream(t) == {u \in Tasks : t \in upstream(u) \/ \E w \in upstream(u) : t \in upstream(w)}

NoLaterStageRan ==
    \A t \in Tasks : state[t] = "failed" =>
        \A u \in Downstream(t) : tries[u] = 0 /\ state[u] = "upstream_failed"

(* C5 as stated: when a run has failed, no stage after the failed one ran  *)
(* and the table (existence, columns, rows) is the one the last successful *)
(* run left, also when the loader failed after its create-if-absent        *)
(* statement.                                                              *)
C5_AsStated ==
    RunFailed => (NoLaterStageRan /\ table = lastGood)

(* C5, amended: when a run has failed, no stage after the failed one ran;  *)
(* if the last successful run left a table, the table is identical to it;  *)
(* if no run has succeeded yet, the table is absent or is the empty table  *)
(* with TEXT columns that a loader left which failed after its             *)
(* create-if-absent statement.                                             *)
C5_FailedRun ==
    RunFailed =>
        /\ NoLaterStageRan
        /\ IF lastGood.exists THEN table = lastGood
           ELSE \/ ~table.exists
                \/ /\ table.rows = <<>>
                   /\ \A i \in 1..Len(table.columns) : table.columns[i][2] = "TEXT"

(* the loader failed twice on a rejected bulk load of a frame that differs *)
(* from the rows the table holds from an earlier run                       *)
C5_Witness ==
    /\ RunFailed
    /\ state[load_task] = "failed"
    /\ err[load_task] = "WriteError"
    /\ lastGood.exists
    /\ table.rows # <<>>
    /\ table.rows # FrameRows(pulled[load_task].value)

-----------------------------------------------------------------------------
(* C6: no stage is attempted more than two times in a run; a stage is      *)
(* retried only after a first failed attempt; a stage is failed only after *)
(* its second failed attempt, and then no stage after it is attempted and  *)
(* the run ends failed.                                                    *)
C6_RetryPolicy ==
    \A t \in Tasks :
        /\ tries[t] <= 2
        /\ state[t] = "up_for_retry" => tries[t] = 1
        /\ state[t] = "failed" =>
              /\ tries[t] = 2
              /\ \A u \in Downstream(t) : tries[u] = 0
              /\ RunFinished => RunFailed
        /\ state[t] = "success" => tries[t] \in {1, 2}

(* a stage that failed twice while the loader was never started *)
C6_Witness ==
    /\ state[transform_task] = "failed"
    /\ tries[transform_task] = 2
    /\ RunFailed
    /\ tries[load_task] = 0

-----------------------------------------------------------------------------
(* C7 as stated: after every completed load the table's column names are   *)
(* the frame's, in the frame's order, and every column is typed TEXT.      *)
C7_AsStated ==
    state[load_task] = "success" =>
        /\ Len(table.columns) = Len(lastLoaded.columns)
        /\ \A i \in 1..Len(table.columns) :
              /\ table.columns[i][1] = lastLoaded.columns[i]
              /\ table.columns[i][2] = "TEXT"

-----------------------------------------------------------------------------
-----------------------------------------------------------------------------
LacksCollection == file.kind = "json" /\ "dataSekolah" \notin DOMAIN file.data

(* C9 as stated: called with a locator, the extract stage fails when the   *)
(* file is missing, is not JSON or lacks the dataSekolah key, so           *)
(* transform_task is never started on a source that lacks the key.         *)
C9_AsStated ==
    /\ (op_args # <<>> /\ Executed(extract_task)
          /\ (file.kind \in {"missing", "garbage"} \/ LacksCollection))
          => Raised(extract_task)
    /\ tries[transform_task] > 0 => ~LacksCollection

(* C9, amended: called with a locator, the extract stage fails exactly     *)
(* when the file is missing (FileNotFoundError) or is not JSON             *)
(* (JSONDecodeError); on a JSON source that lacks the dataSekolah key it   *)
(* succeeds, and it is transform_task that raises KeyError on each of its  *)
(* attempts, so load_task is never started on such a source.               *)
C9_KeyAbsent ==
    /\ (op_args # <<>> /\ Executed(extract_task)) =>
          /\ Raised(extract_task) <=> file.kind \in {"missing", "garbage"}
          /\ file.kind = "missing" => err[extract_task] = "FileNotFoundError"
          /\ file.kind = "garbage" => err[extract_task] = "JSONDecodeError"
    /\ (LacksCollection /\ Executed(transform_task)) =>
          /\ Raised(transform_task)
          /\ err[transform_task] = "KeyError"
    /\ LacksCollection => tries[load_task] = 0

(* a run on a source without the key: extract succeeded, transform failed  *)
(* twice, load was skipped                                                 *)
C9_Witness ==
    /\ LacksCollection
    /\ state[extract_task] = "success"
    /\ state[transform_task] = "failed"
    /\ state[load_task] = "upstream_failed"

-----------------------------------------------------------------------------
(* the source is well-formed: transform_data returns a frame for it *)
WellFormedSource == HasCollection /\ transform_data(file.data).status = "ok"

(* C10 as stated: every run calls the extractor with a source locator, and *)
(* a run on a well-formed source whose loader met no sink failure ends     *)
(* with extract, transform and load completed and the table holding the    *)
(* transformed frame.                                                      *)
C10_AsStated ==
    (RunFinished /\ WellFormedSource /\ err[load_task] = "none") =>
        /\ op_args # <<>>
        /\ \A t \in Tasks : state[t] = "success"
        /\ table.rows = FrameRows(transform_data(file.data).value)

=============================================================================
